---- MODULE Spec2Model ----
(***************************************************************************)
(* The quiz backend: answer submission and scoring (router.post('/answer') *)
(* of the questions router), question creation with its tag counter        *)
(* (router.post('/') of the questions router) and the leaderboard          *)
(* (router.get('/') of the users router). Each handler is run by requests  *)
(* whose store operations (the awaits of the handler) interleave, against  *)
(* the tables Users, Questions, Tags, RelatedQuestions and                 *)
(* AnsweredQuestionUsers.                                                  *)
(***************************************************************************)
EXTENDS Bags, FiniteSets, Integers, Sequences, TLC

(***************************************************************************)
(* Bounds of the model.                                                    *)
(***************************************************************************)
\* users present in the Users table (ids 1..NumUsers)
NumUsers == 2
\* questions present in the Questions table (ids 1..NumQuestions)
NumQuestions == 2
\* requests that can be in flight at the same time
NumProcs == 2
\* requests received in one behaviour
MaxRequests == 2
\* tags present in the Tags table (ids 1..NumTags)
NumTags == 2

Procs == 1..NumProcs

\* the userId cookie: 0 stands for a request without the cookie, NumUsers + 1
\* is the id of no user
NoCookie == 0
CookieInputs == 0..(NumUsers + 1)

\* question_id of the body: 0 (falsy, like an absent field), NumQuestions + 1
\* is the id of no question
QuestionIdInputs == 0..(NumQuestions + 1)

(***************************************************************************)
(* JSON values of the body field `option`: undefined (absent), a number    *)
(* (held as the text String(n) gives) or a string; text is the sequence of *)
(* its characters.                                                         *)
(***************************************************************************)
Undefined == [type |-> "undefined", text |-> << >>]
Num(t) == [type |-> "number", text |-> t]
Str(t) == [type |-> "string", text |-> t]

OptionInputs ==
    { Undefined,
      Num(<<"1">>), Num(<<"5">>), Num(<<"1", ".", "5">>),
      Str(<<"2">>), Str(<<"x">>) }

\* JavaScript falsiness of a body value: undefined, the number 0, the empty string
Falsy(v) ==
    \/ v.type = "undefined"
    \/ v.type = "number" /\ v.text = <<"0">>
    \/ v.type = "string" /\ v.text = << >>

Digits == <<"0", "1", "2", "3", "4", "5", "6", "7", "8", "9">>
IsDigit(c) == \E i \in 1..Len(Digits) : Digits[i] = c
DigitValue(c) == (CHOOSE i \in 1..Len(Digits) : Digits[i] = c) - 1

\* the value of the longest prefix of digits of t, read left to right from acc
RECURSIVE DigitPrefix(_, _)
DigitPrefix(t, acc) ==
    IF t = << >> \/ ~IsDigit(Head(t))
    THEN acc
    ELSE DigitPrefix(Tail(t), acc * 10 + DigitValue(Head(t)))

RECURSIVE TrimLeft(_)
TrimLeft(t) == IF t # << >> /\ Head(t) = " " THEN TrimLeft(Tail(t)) ELSE t

\* parseInt(v): the text of v without leading blanks, an optional sign, then the
\* longest prefix of decimal digits; NaN when there is no digit
NaN == [nan |-> TRUE, value |-> 0]
ParseInt(v) ==
    LET s == TrimLeft(IF v.type = "undefined"
                      THEN <<"u", "n", "d", "e", "f", "i", "n", "e", "d">>
                      ELSE v.text)
        neg == s # << >> /\ Head(s) = "-"
        body == IF s # << >> /\ Head(s) \in {"-", "+"} THEN Tail(s) ELSE s
    IN  IF body = << >> \/ ~IsDigit(Head(body))
        THEN NaN
        ELSE [nan |-> FALSE,
              value |-> IF neg THEN 0 - DigitPrefix(body, 0) ELSE DigitPrefix(body, 0)]

\* [1, 2, 3, 4].includes(option)
OptionIncluded(n) == ~n.nan /\ n.value \in {1, 2, 3, 4}

(***************************************************************************)
(* State.                                                                  *)
(***************************************************************************)
VARIABLES
    Users,                  \* table Users: id -> [name, score]
    Questions,              \* table Questions: id -> [correct_option, answer_count, correct_answer_count, tag_id]
    AnsweredQuestionUsers,  \* table AnsweredQuestionUsers: the bag of its rows
    columnsUnique,          \* the ledger table also declares question_id UNIQUE and user_id UNIQUE
    requests,               \* the request each handler invocation is serving and where it stands
    received,               \* number of /answer requests received so far
    Tags,                   \* table Tags: id -> [name, question_number]
    RelatedQuestions,       \* table RelatedQuestions: the set of its rows <<question_id, related_id>>
    creations,              \* the POST /questions request each handler invocation is serving
    posted,                 \* number of POST /questions requests received so far
    boards,                 \* the GET /users requests and where they stand
    tagRequests,            \* the POST /tags request each handler invocation is serving
    tagNameUnique,          \* the Tags table declares name UNIQUE
    registrations,          \* the POST /users request each handler invocation is serving
    logins,                 \* the POST /users/login request each handler invocation is serving
    issued,                 \* the user ids the login handler has set the userId cookie to
    arrived                 \* number of tag, registration and login requests received so far

vars == <<Users, Questions, AnsweredQuestionUsers, columnsUnique, requests, received,
          Tags, RelatedQuestions, creations, posted, boards,
          tagRequests, tagNameUnique, registrations, logins, issued, arrived>>

store == <<Users, Questions, AnsweredQuestionUsers>>

\* what the handler of /answer never touches
aside == <<Tags, RelatedQuestions, creations, posted, boards,
           tagRequests, tagNameUnique, registrations, logins, issued, arrived>>

\* what the handlers of questions and of the leaderboard never touch
beside == <<tagRequests, tagNameUnique, registrations, logins, issued, arrived>>

\* answered_status written by the handler
AnsweredStatus(isCorrect) == IF isCorrect THEN "Correct" ELSE "Incorrect"

Row(q, u, s) == [question_id |-> q, user_id |-> u, answered_status |-> s]

Rows == BagToSet(AnsweredQuestionUsers)

\* number of rows of the ledger among the distinct rows S
RECURSIVE Copies(_)
Copies(S) ==
    IF S = {} THEN 0
    ELSE LET r == CHOOSE x \in S : TRUE
         IN  CopiesIn(r, AnsweredQuestionUsers) + Copies(S \ {r})

RecordsOfPair(u, q) == Copies({r \in Rows : r.user_id = u /\ r.question_id = q})
RecordsOfQuestion(q) == Copies({r \in Rows : r.question_id = q})
CorrectRecordsOfQuestion(q) ==
    Copies({r \in Rows : r.question_id = q /\ r.answered_status = "Correct"})
CorrectRecordsOfUser(u) ==
    Copies({r \in Rows : r.user_id = u /\ r.answered_status = "Correct"})

\* the handler's snapshot of what the store held for (user, question) when the
\* request arrived (history, read by no action)
Snapshot(u, q) ==
    [answered |-> RecordsOfPair(u, q) > 0,
     answer_count |-> IF q \in DOMAIN Questions THEN Questions[q].answer_count ELSE 0,
     correct_answer_count |->
         IF q \in DOMAIN Questions THEN Questions[q].correct_answer_count ELSE 0,
     score |-> IF u \in DOMAIN Users THEN Users[u].score ELSE 0]

NoSnapshot == [answered |-> FALSE, answer_count |-> 0, correct_answer_count |-> 0, score |-> 0]

Idle ==
    [pc |-> "idle", user_id |-> 0, question_id |-> 0, option |-> Undefined,
     isCorrect |-> FALSE, status |-> 0, error |-> "none", correct |-> FALSE,
     responses |-> 0, before |-> NoSnapshot]

\* correct_option of the questions the table starts with
InitialCorrectOption(q) == ((q - 1) % 4) + 1

\* name of the user with id u, name of the tag with id t (both columns are
\* UNIQUE in the tables); a name is the sequence of its characters
UserNames == << <<"A", "l">>, <<"B", "o">>, <<"a", "b">>, <<"C", "y">>, <<"l", "o">> >>
TagNames == <<"math", "history", "art", "sport", "music">>

\* email and password of the user with id u
UserEmails == <<"al@q.ir", "bo@q.ir", "ab@q.ir", "cy@q.ir", "lo@q.ir">>
UserPasswords == <<"pw-al", "pw-bo", "pw-ab", "pw-cy", "pw-lo">>

\* bcrypt.hash(password, saltRounds): the stored text is not the password;
\* bcrypt.compare(password, hash) tells whether hash was made from password
Hash(password) == <<"bcrypt", password>>
Compare(password, hash) == hash = Hash(password)

\* the row of the Users table of the user with id u and score s
UserRow(u, s) ==
    [name |-> UserNames[u], email |-> UserEmails[u],
     password |-> Hash(UserPasswords[u]), score |-> s]

\* tag_id of the questions the table starts with
InitialTag(q) == ((q - 1) % NumTags) + 1

\* a POST /questions request before it is received
IdleCreation ==
    [pc |-> "idle", creator_id |-> 0, correct_option |-> Undefined, tag_name |-> "",
     related_ids |-> << >>, tag_id |-> 0, question_id |-> 0, pending |-> << >>,
     status |-> 0, error |-> "none",
     before |-> [question_number |-> << >>, questions |-> {}]]

\* a GET /users request before it is received
IdleBoard ==
    [pc |-> "idle", user_id |-> 0, name |-> << >>, sort |-> "none",
     currentUser |-> [id |-> 0, name |-> << >>, score |-> 0],
     result |-> << >>, status |-> 0, error |-> "none"]

\* a POST /tags request before it is received; name is the body field: its
\* JSON type and, for a string, its text
IdleTagRequest ==
    [pc |-> "idle", name |-> [type |-> "undefined", text |-> ""], tag_id |-> 0,
     status |-> 0, error |-> "none"]

\* a POST /users request before it is received
IdleRegistration ==
    [pc |-> "idle", name |-> << >>, email |-> "", password |-> "",
     hashedPassword |-> << >>, id |-> 0, status |-> 0, error |-> "none"]

\* a POST /users/login request before it is received
IdleLogin ==
    [pc |-> "idle", email |-> "", password |-> "", user |-> 0,
     status |-> 0, error |-> "none"]

\* the two GET /users requests a behaviour can hold side by side
BoardIds == {1, 2}

\* the part of the initial state the tables' defaults and the idle handlers fix
InitRest ==
    /\ requests = [p \in Procs |-> Idle]
    /\ received = 0
    /\ Tags = [t \in 1..NumTags |->
                   [name |-> TagNames[t],
                    question_number |->
                        Cardinality({q \in 1..NumQuestions : InitialTag(q) = t})]]
    /\ RelatedQuestions = {}
    /\ creations = [c \in Procs |-> IdleCreation]
    /\ posted = 0
    /\ boards = [b \in BoardIds |-> IdleBoard]
    /\ tagRequests = [p \in Procs |-> IdleTagRequest]
    /\ registrations = [p \in Procs |-> IdleRegistration]
    /\ logins = [p \in Procs |-> IdleLogin]
    /\ issued = {}
    /\ arrived = 0

InitQuestions ==
    Questions = [q \in 1..NumQuestions |->
                    [correct_option |-> InitialCorrectOption(q),
                     answer_count |-> 0, correct_answer_count |-> 0,
                     tag_id |-> InitialTag(q)]]

\* the tables as they are created, but for the declaration of Tags.name
InitTables ==
    /\ Users = [u \in 1..NumUsers |-> UserRow(u, 0)]
    /\ InitQuestions
    /\ AnsweredQuestionUsers = EmptyBag
    /\ columnsUnique \in BOOLEAN
    /\ InitRest

\* Tags.name is UNIQUE as the dumped schema declares it; no handler but the
\* one that creates tags depends on it
Init ==
    /\ InitTables
    /\ tagNameUnique = TRUE

InFlight(p) == requests[p].pc \notin {"idle", "done"}

\* res.status(s).json(...): the request ends with its one response
Respond(p, s, e, c) ==
    requests' = [requests EXCEPT ![p].pc = "done", ![p].status = s,
                                 ![p].error = e, ![p].correct = c,
                                 ![p].responses = @ + 1]

Goto(p, label) == requests' = [requests EXCEPT ![p].pc = label]

(***************************************************************************)
(* authenticateUser and the synchronous head of the handler: the cookie,   *)
(* the validation of the body, up to the first await. A request is served  *)
(* by the first handler slot that is free.                                 *)
(***************************************************************************)
Receive(p, cookie, question_id, option) ==
    /\ ~InFlight(p)
    /\ \A r \in Procs : r < p => InFlight(r)
    /\ received < MaxRequests
    /\ received' = received + 1
    /\ LET r == [Idle EXCEPT !.user_id = cookie, !.question_id = question_id,
                             !.option = option,
                             !.before = Snapshot(cookie, question_id)]
       IN  IF cookie = NoCookie
           THEN requests' = [requests EXCEPT ![p] =
                    [r EXCEPT !.pc = "done", !.status = 401, !.error = "unauthorized",
                       !.responses = 1]]
           ELSE IF question_id = 0 \/ Falsy(option)
           THEN requests' = [requests EXCEPT ![p] =
                    [r EXCEPT !.pc = "done", !.status = 400, !.error = "required",
                       !.responses = 1]]
           ELSE IF ~OptionIncluded(ParseInt(option))
           THEN requests' = [requests EXCEPT ![p] =
                    [r EXCEPT !.pc = "done", !.status = 400, !.error = "option",
                       !.responses = 1]]
           ELSE requests' = [requests EXCEPT ![p] = [r EXCEPT !.pc = "findUser"]]
    /\ UNCHANGED <<store, columnsUnique, aside>>

\* [mutant] the handler goes on without the check of the user it found
FindUser_Unchecked(p) ==
    /\ requests[p].pc = "findUser"
    /\ Goto(p, "findQuestion")
    /\ UNCHANGED <<store, columnsUnique, received, aside>>

\* User.findByPk(user_id)
FindUser(p) ==
    /\ requests[p].pc = "findUser"
    /\ IF requests[p].user_id \in DOMAIN Users
       THEN Goto(p, "findQuestion")
       ELSE Respond(p, 404, "userNotFound", FALSE)
    /\ UNCHANGED <<store, columnsUnique, received, aside>>

\* Question.findByPk(question_id), then isCorrect
FindQuestion(p) ==
    /\ requests[p].pc = "findQuestion"
    /\ IF requests[p].question_id \in DOMAIN Questions
       THEN requests' = [requests EXCEPT
                ![p].pc = "incrementAnswerCount",
                ![p].isCorrect =
                    (Questions[requests[p].question_id].correct_option
                        = ParseInt(requests[p].option).value)]
       ELSE Respond(p, 404, "questionNotFound", FALSE)
    /\ UNCHANGED <<store, columnsUnique, received, aside>>

\* [mutant] the handler counts the correct answer but not the answer
IncrementAnswerCount_ReadModifyWrite(p) ==
    /\ requests[p].pc = "incrementAnswerCount"
    /\ Questions' = [Questions EXCEPT ![requests[p].question_id].answer_count =
                        requests[p].before.answer_count + 1]
    /\ Goto(p, IF requests[p].isCorrect THEN "incrementCorrectAnswerCount" ELSE "findOne")
    /\ UNCHANGED <<Users, AnsweredQuestionUsers, columnsUnique, received, aside>>

IncrementAnswerCount_Forgotten(p) ==
    /\ requests[p].pc = "incrementAnswerCount"
    /\ Goto(p, IF requests[p].isCorrect THEN "incrementCorrectAnswerCount" ELSE "findOne")
    /\ UNCHANGED <<store, columnsUnique, received, aside>>

\* question.increment('answer_count')
IncrementAnswerCount(p) ==
    /\ requests[p].pc = "incrementAnswerCount"
    /\ Questions' = [Questions EXCEPT ![requests[p].question_id].answer_count = @ + 1]
    /\ Goto(p, IF requests[p].isCorrect THEN "incrementCorrectAnswerCount" ELSE "findOne")
    /\ UNCHANGED <<Users, AnsweredQuestionUsers, columnsUnique, received, aside>>

\* question.increment('correct_answer_count')
IncrementCorrectAnswerCount(p) ==
    /\ requests[p].pc = "incrementCorrectAnswerCount"
    /\ Questions' = [Questions EXCEPT
                        ![requests[p].question_id].correct_answer_count = @ + 1]
    /\ Goto(p, "findOne")
    /\ UNCHANGED <<Users, AnsweredQuestionUsers, columnsUnique, received, aside>>

\* a lookup that returns without a response when it finds the record
FindOne_Silent(p) ==
    /\ requests[p].pc = "findOne"
    /\ IF RecordsOfPair(requests[p].user_id, requests[p].question_id) > 0
       THEN Goto(p, "returned")
       ELSE Goto(p, "create")
    /\ UNCHANGED <<store, columnsUnique, received, aside>>

\* a lookup that takes the repeated answer back out of answer_count before
\* it turns the request away
FindOne_TakeBack(p) ==
    /\ requests[p].pc = "findOne"
    /\ IF RecordsOfPair(requests[p].user_id, requests[p].question_id) > 0
       THEN /\ Questions' = [Questions EXCEPT
                                ![requests[p].question_id].answer_count = @ - 1]
            /\ Respond(p, 400, "alreadyAnswered", FALSE)
       ELSE /\ Goto(p, "create")
            /\ UNCHANGED Questions
    /\ UNCHANGED <<Users, AnsweredQuestionUsers, columnsUnique, received, aside>>

\* AnsweredQuestionUser.findOne({ where: { user_id, question_id } })
FindOne(p) ==
    /\ requests[p].pc = "findOne"
    /\ IF RecordsOfPair(requests[p].user_id, requests[p].question_id) > 0
       THEN Respond(p, 400, "alreadyAnswered", FALSE)
       ELSE Goto(p, "create")
    /\ UNCHANGED <<store, columnsUnique, received, aside>>

\* [mutant] a ledger table without its key: no insert is refused
ConstraintFails_NoKey(q, u) == FALSE

\* the constraints of table AnsweredQuestionUsers that refuse the insert of a
\* row for (q, u): the composite primary key, and question_id UNIQUE and
\* user_id UNIQUE where the table declares them
ConstraintFails(q, u) ==
    \/ \E r \in Rows : r.question_id = q /\ r.user_id = u
    \/ columnsUnique /\ \E r \in Rows : r.question_id = q \/ r.user_id = u

\* an insert that replaces the rows its constraints collide with
Create_Replace(p) ==
    /\ requests[p].pc = "create"
    /\ LET q == requests[p].question_id
           u == requests[p].user_id
           kept == {r \in Rows :
                       /\ ~(r.question_id = q /\ r.user_id = u)
                       /\ ~(columnsUnique /\ (r.question_id = q \/ r.user_id = u))}
       IN  /\ AnsweredQuestionUsers' =
                  SetToBag(kept) (+)
                      SetToBag({Row(q, u, AnsweredStatus(requests[p].isCorrect))})
           /\ IF requests[p].isCorrect
              THEN Goto(p, "incrementScore")
              ELSE Respond(p, 200, "none", FALSE)
    /\ UNCHANGED <<Users, Questions, columnsUnique, received, aside>>

\* AnsweredQuestionUser.create(...); a refused insert throws into the catch
Create(p) ==
    /\ requests[p].pc = "create"
    /\ LET q == requests[p].question_id
           u == requests[p].user_id
       IN  IF ConstraintFails(q, u)
           THEN /\ Respond(p, 500, "failed", FALSE)
                /\ UNCHANGED AnsweredQuestionUsers
           ELSE /\ AnsweredQuestionUsers' = AnsweredQuestionUsers (+)
                        SetToBag({Row(q, u, AnsweredStatus(requests[p].isCorrect))})
                /\ IF requests[p].isCorrect
                   THEN Goto(p, "incrementScore")
                   ELSE Respond(p, 200, "none", FALSE)
    /\ UNCHANGED <<Users, Questions, columnsUnique, received, aside>>

\* [mutant] the 200 response of a correct answer without the score update
IncrementScore_Forgotten(p) ==
    /\ requests[p].pc = "incrementScore"
    /\ Respond(p, 200, "none", TRUE)
    /\ UNCHANGED <<store, columnsUnique, received, aside>>

\* a score update that runs twice
IncrementScore_Twice(p) ==
    /\ requests[p].pc = "incrementScore"
    /\ Users' = [Users EXCEPT ![requests[p].user_id].score = @ + 2]
    /\ Respond(p, 200, "none", TRUE)
    /\ UNCHANGED <<Questions, AnsweredQuestionUsers, columnsUnique, received, aside>>

\* an update of the score without its where clause: every user's score grows
IncrementScore_Everyone(p) ==
    /\ requests[p].pc = "incrementScore"
    /\ Users' = [u \in DOMAIN Users |-> [Users[u] EXCEPT !.score = @ + 1]]
    /\ Respond(p, 200, "none", TRUE)
    /\ UNCHANGED <<Questions, AnsweredQuestionUsers, columnsUnique, received, aside>>

\* user.increment('score'), then the 200 response
IncrementScore(p) ==
    /\ requests[p].pc = "incrementScore"
    /\ Users' = [Users EXCEPT ![requests[p].user_id].score = @ + 1]
    /\ Respond(p, 200, "none", TRUE)
    /\ UNCHANGED <<Questions, AnsweredQuestionUsers, columnsUnique, received, aside>>

Step(p) ==
    \/ FindUser(p)
    \/ FindQuestion(p)
    \/ IncrementAnswerCount(p)
    \/ IncrementCorrectAnswerCount(p)
    \/ FindOne(p)
    \/ Create(p)
    \/ IncrementScore(p)

Next ==
    \/ \E p \in Procs, c \in CookieInputs, q \in QuestionIdInputs, o \in OptionInputs :
           Receive(p, c, q, o)
    \/ \E p \in Procs : Step(p)

Spec == Init /\ [][Next]_vars

(***************************************************************************)
(* The same handler when the client sends its requests one after the       *)
(* other: a request is received only when no request is in flight.         *)
(***************************************************************************)
Quiescent == \A p \in Procs : ~InFlight(p)

ReceiveInSequence(cookie, question_id, option) ==
    /\ Quiescent
    /\ Receive(1, cookie, question_id, option)

NextSerial ==
    \/ \E c \in CookieInputs, q \in QuestionIdInputs, o \in OptionInputs :
           ReceiveInSequence(c, q, o)
    \/ \E p \in Procs : Step(p)

SpecSerial == Init /\ [][NextSerial]_vars

(***************************************************************************)
(* Vocabulary of the properties.                                           *)
(***************************************************************************)
Done(p) == requests[p].pc = "done"

\* the option is one of 1, 2, 3, 4 (sent as a number or as its decimal text)
OneToFour(v) == v.text \in {<<"1">>, <<"2">>, <<"3">>, <<"4">>}

\* the request names a user and a question of the tables
NamesExisting(r) == r.user_id \in DOMAIN Users /\ r.question_id \in DOMAIN Questions

\* a valid answer of an existing user to an existing question
ValidSubmission(r) == NamesExisting(r) /\ OneToFour(r.option)

\* the body passes the handler's own validation
BodyAccepted(r) ==
    r.question_id # 0 /\ ~Falsy(r.option) /\ OptionIncluded(ParseInt(r.option))

\* this step is a step of request slot p
StepOf(p) == requests'[p] # requests[p]

Bit(b) == IF b THEN 1 ELSE 0

(***************************************************************************)
(* C1. When a user sends a valid answer to a question twice, one request   *)
(* after the other, the first is answered 200, the second is refused with  *)
(* the already-answered error, and one ledger row of the pair exists:      *)
(* every finished valid submission got 200 when the pair had no row as it  *)
(* arrived and the already-answered 400 when it had one, and the pair has  *)
(* exactly one row afterwards.                                             *)
(***************************************************************************)
C1_TwiceInSequence ==
    \A p \in Procs :
        (Done(p) /\ ValidSubmission(requests[p])) =>
            LET r == requests[p]
            IN  /\ r.before.answered => (r.status = 400 /\ r.error = "alreadyAnswered")
                /\ ~r.before.answered => r.status = 200
                /\ RecordsOfPair(r.user_id, r.question_id) = 1

(***************************************************************************)
(* C2. In every reachable state the ledger holds at most one row for each  *)
(* (user, question) pair.                                                  *)
(***************************************************************************)
C2_AtMostOneRecord ==
    \A r \in Rows : RecordsOfPair(r.user_id, r.question_id) <= 1

\* two submissions of one pair raced past findOne: one inserted the row, the
\* insert of the other was refused
C2_Witness ==
    \E p, r \in Procs :
        /\ p # r /\ Done(p) /\ Done(r)
        /\ requests[p].user_id = requests[r].user_id
        /\ requests[p].question_id = requests[r].question_id
        /\ requests[p].status = 200
        /\ requests[r].error = "failed"
        /\ ~requests[r].before.answered
        /\ RecordsOfPair(requests[p].user_id, requests[p].question_id) = 1

(***************************************************************************)
(* C3. Of the submissions of one (user, question) pair that run            *)
(* concurrently, one is answered 200 and every other one is refused with   *)
(* the already-answered error: once the pair has its row, a finished valid *)
(* submission of the pair was answered 200 or already-answered, and no two *)
(* were answered 200.                                                      *)
(***************************************************************************)
C3_RaceLosersAlreadyAnswered ==
    /\ \A p \in Procs :
           (/\ Done(p) /\ ValidSubmission(requests[p])
            /\ RecordsOfPair(requests[p].user_id, requests[p].question_id) > 0)
           => (requests[p].status = 200 \/ requests[p].error = "alreadyAnswered")
    /\ \A p, r \in Procs :
           (/\ p # r /\ Done(p) /\ Done(r)
            /\ requests[p].user_id = requests[r].user_id
            /\ requests[p].question_id = requests[r].question_id)
           => ~(requests[p].status = 200 /\ requests[r].status = 200)

(***************************************************************************)
(* C4. In every reachable state, the middle of a submission included,      *)
(* 0 <= correct_answer_count <= answer_count for every question.           *)
(***************************************************************************)
C4_CorrectWithinAnswers ==
    \A q \in DOMAIN Questions :
        /\ 0 <= Questions[q].correct_answer_count
        /\ Questions[q].correct_answer_count <= Questions[q].answer_count

\* a correct answer has been counted while its submission is still in flight
C4_Witness ==
    \E p \in Procs :
        /\ requests[p].pc = "findOne"
        /\ requests[p].isCorrect
        /\ Questions[requests[p].question_id].correct_answer_count >= 1

(***************************************************************************)
(* C5. A submission of a pair that already has its ledger row is refused   *)
(* with the already-answered error and changes no counter: no step of it   *)
(* changes a question's counters or a user's score.                        *)
(***************************************************************************)
C5_RepeatChangesNoCounter ==
    [][\A p \in Procs :
           (InFlight(p) /\ requests[p].before.answered /\ StepOf(p)) =>
               /\ Questions' = Questions
               /\ Users' = Users
               /\ Done(p)' => requests'[p].error = "alreadyAnswered"]_vars

(***************************************************************************)
(* C6. When no submission is in progress, every question's answer_count is *)
(* the number of its ledger rows and its correct_answer_count the number   *)
(* of its rows with status Correct.                                        *)
(***************************************************************************)
C6_CountersMatchLedger ==
    Quiescent =>
        \A q \in DOMAIN Questions :
            /\ Questions[q].answer_count = RecordsOfQuestion(q)
            /\ Questions[q].correct_answer_count = CorrectRecordsOfQuestion(q)

(***************************************************************************)
(* C7. When no submission is in progress, every user's score is the number *)
(* of that user's ledger rows with status Correct.                         *)
(***************************************************************************)
C7_ScoreMatchesLedger ==
    Quiescent =>
        \A u \in DOMAIN Users : Users[u].score = CorrectRecordsOfUser(u)

\* a user has scored and a later submission has been refused
C7_Witness ==
    /\ Quiescent
    /\ \E p, r \in Procs :
           /\ p # r /\ Done(p) /\ Done(r)
           /\ requests[p].status = 200 /\ requests[p].correct
           /\ Users[requests[p].user_id].score = 1
           /\ requests[r].status \in {400, 500}
           /\ NamesExisting(requests[r]) /\ BodyAccepted(requests[r])

(***************************************************************************)
(* C8. A first valid submission of user u to question q is answered with   *)
(* correct = (option = correct_option(q)) and adds 1 to answer_count(q);   *)
(* a correct one also adds 1 to correct_answer_count(q) and to score(u),   *)
(* an incorrect one leaves both as they were. The request runs alone, so   *)
(* the values it found on arrival are the values before it.                *)
(***************************************************************************)
C8_FirstSubmissionEffect ==
    [][\A p \in Procs :
           (/\ InFlight(p) /\ Done(p)'
            /\ ValidSubmission(requests[p])
            /\ ~requests[p].before.answered) =>
               LET r == requests'[p]
                   q == r.question_id
                   u == r.user_id
                   right == ParseInt(r.option).value = Questions[q].correct_option
               IN  /\ r.status = 200
                   /\ r.correct = right
                   /\ Questions'[q].answer_count = r.before.answer_count + 1
                   /\ Questions'[q].correct_answer_count =
                          r.before.correct_answer_count + Bit(right)
                   /\ Users'[u].score = r.before.score + Bit(right)]_vars

(***************************************************************************)
(* C9. A submission whose option is missing or is not one of 1, 2, 3, 4 is *)
(* refused with status 400 and no step of it changes the store (stated for *)
(* the submissions of an existing user to an existing question).           *)
(***************************************************************************)
C9_BadOptionRejected ==
    [][\A p \in Procs :
           (/\ StepOf(p)
            /\ NamesExisting(requests'[p])
            /\ ~OneToFour(requests'[p].option)) =>
               /\ store' = store
               /\ Done(p)' => requests'[p].status = 400]_vars

(***************************************************************************)
(* C10. A submission with an accepted body that names a user or a question *)
(* that does not exist is answered 404 and no step of it changes the       *)
(* store.                                                                  *)
(***************************************************************************)
C10_NotFoundBeforeMutation ==
    [][\A p \in Procs :
           (/\ StepOf(p)
            /\ requests'[p].user_id # NoCookie
            /\ BodyAccepted(requests'[p])
            /\ ~NamesExisting(requests'[p])) =>
               /\ store' = store
               /\ Done(p)' => requests'[p].status = 404]_vars

\* a request naming a missing question was answered 404 after another request
\* had changed the store
C10_Witness ==
    \E p \in Procs :
        /\ Done(p)
        /\ requests[p].user_id \in DOMAIN Users
        /\ requests[p].question_id \notin DOMAIN Questions
        /\ requests[p].status = 404 /\ requests[p].error = "questionNotFound"
        /\ \E q \in DOMAIN Questions : Questions[q].answer_count > 0

(***************************************************************************)
(* The leaderboard: router.get('/') of the users router. The handler reads *)
(* the requester, then the other users ordered by score, puts the          *)
(* requester at the head and numbers the entries.                          *)
(***************************************************************************)
\* users of the table the leaderboard is read from (ids 1..NumBoardUsers)
NumBoardUsers == 4
\* highest score a user of that table holds
MaxScore == 1

\* the query parameter `name` ("" when absent) and the query parameter `sort`
NameInputs == { << >>, <<"a">>, <<"L">>, <<"_">> }
SortInputs == {"none", "asc", "desc"}

Uppercase == <<"A", "B", "C", "L", "O", "Y">>
Lowercase == <<"a", "b", "c", "l", "o", "y">>
\* the ASCII case folding of the LIKE operator
Lower(c) ==
    IF \E i \in 1..Len(Uppercase) : Uppercase[i] = c
    THEN Lowercase[CHOOSE i \in 1..Len(Uppercase) : Uppercase[i] = c]
    ELSE c

\* text LIKE pattern: % stands for any run of characters, _ for any one
\* character, letters compare without case
RECURSIVE Like(_, _)
Like(pattern, text) ==
    IF pattern = << >> THEN text = << >>
    ELSE IF Head(pattern) = "%"
    THEN Like(Tail(pattern), text) \/ (text # << >> /\ Like(pattern, Tail(text)))
    ELSE /\ text # << >>
         /\ Head(pattern) = "_" \/ Lower(Head(pattern)) = Lower(Head(text))
         /\ Like(Tail(pattern), Tail(text))

\* the where clause of findAll: every user but the requester, and when the
\* filter is not empty only names LIKE %name%
OtherUsers(currentUserId, name) ==
    {u \in DOMAIN Users :
        /\ u # currentUserId
        /\ name = << >> \/ Like(<<"%">> \o name \o <<"%">>, Users[u].name)}

\* findAll without its order option: the users S in any order
OrderUnspecified(S) ==
    {o \in [1..Cardinality(S) -> S] : \A i, j \in DOMAIN o : i # j => o[i] # o[j]}

\* order: [['score', 'DESC']]: the orders the store can return the users S in
OrderByScoreDesc(S) ==
    {o \in [1..Cardinality(S) -> S] :
        /\ \A i, j \in DOMAIN o : i # j => o[i] # o[j]
        /\ \A i, j \in DOMAIN o : i < j => Users[o[i]].score >= Users[o[j]].score}

ToJSON(u) == [id |-> u, name |-> Users[u].name, score |-> Users[u].score]

\* the value of the variable `rank` when the callback of map reaches the
\* entry at position i (counted from 1): the callback of position j sets it to
\* j when j > 1 and the score differs from the one before
RECURSIVE RankAt(_, _)
RankAt(allUsers, i) ==
    IF i = 1 THEN 1
    ELSE IF i - 1 > 1 /\ allUsers[i - 1].score # allUsers[i - 2].score
    THEN i - 1
    ELSE RankAt(allUsers, i - 1)

WithRanks(allUsers) ==
    [i \in DOMAIN allUsers |->
        [id |-> allUsers[i].id, name |-> allUsers[i].name,
         score |-> allUsers[i].score, rank |-> RankAt(allUsers, i)]]

RespondBoard(b, s, e, result) ==
    boards' = [boards EXCEPT ![b].pc = "done", ![b].status = s, ![b].error = e,
                             ![b].result = result]

\* authenticateUser and the head of the handler up to findByPk
ReceiveBoard(b, cookie, name, sort) ==
    /\ boards[b].pc = "idle"
    /\ LET r == [IdleBoard EXCEPT !.user_id = cookie, !.name = name, !.sort = sort]
       IN  IF cookie = NoCookie
           THEN boards' = [boards EXCEPT ![b] =
                    [r EXCEPT !.pc = "done", !.status = 401, !.error = "unauthorized"]]
           ELSE boards' = [boards EXCEPT ![b] = [r EXCEPT !.pc = "findByPk"]]
    /\ UNCHANGED <<store, columnsUnique, requests, received, Tags, RelatedQuestions,
                   creations, posted, beside>>

\* const currentUser = await User.findByPk(currentUserId)
FindCurrentUser(b) ==
    /\ boards[b].pc = "findByPk"
    /\ IF boards[b].user_id \notin DOMAIN Users
       THEN RespondBoard(b, 400, "current user not found", << >>)
       ELSE boards' = [boards EXCEPT ![b].pc = "findAll",
                                     ![b].currentUser = ToJSON(boards[b].user_id)]
    /\ UNCHANGED <<store, columnsUnique, requests, received, Tags, RelatedQuestions,
                   creations, posted, beside>>

\* const otherUsers = await User.findAll(...), then the synchronous rest: the
\* requester at the head, the ranks, the response
FindAllUsers(b) ==
    /\ boards[b].pc = "findAll"
    /\ \E o \in OrderByScoreDesc(OtherUsers(boards[b].user_id, boards[b].name)) :
          LET otherUsers == [i \in DOMAIN o |-> ToJSON(o[i])]
              allUsers == <<boards[b].currentUser>> \o otherUsers
          IN  RespondBoard(b, 200, "none", WithRanks(allUsers))
    /\ UNCHANGED <<store, columnsUnique, requests, received, Tags, RelatedQuestions,
                   creations, posted, beside>>

\* a store in which the users hold the scores `scores`: user u has answered
\* the questions 1..scores[u] correctly, and the ledger table can declare its
\* columns UNIQUE only if no column of it repeats
InitLeaderboard ==
    \E scores \in [1..NumBoardUsers -> 0..MaxScore] :
        LET answered == {r \in (1..NumQuestions) \X (1..NumBoardUsers) :
                            r[1] <= scores[r[2]]}
        IN  /\ Users = [u \in 1..NumBoardUsers |-> UserRow(u, scores[u])]
            /\ Questions = [q \in 1..NumQuestions |->
                   [correct_option |-> InitialCorrectOption(q),
                    answer_count |-> Cardinality({r \in answered : r[1] = q}),
                    correct_answer_count |-> Cardinality({r \in answered : r[1] = q}),
                    tag_id |-> InitialTag(q)]]
            /\ AnsweredQuestionUsers =
                   SetToBag({Row(r[1], r[2], "Correct") : r \in answered})
            /\ columnsUnique \in
                   {c \in BOOLEAN :
                       c => \A r1, r2 \in answered :
                                r1 # r2 => r1[1] # r2[1] /\ r1[2] # r2[2]}
            /\ tagNameUnique = TRUE
            /\ InitRest

\* one GET /users request
NextLeaderboard ==
    \/ \E cookie \in 0..(NumBoardUsers + 1), name \in NameInputs, sort \in SortInputs :
          ReceiveBoard(1, cookie, name, sort)
    \/ FindCurrentUser(1)
    \/ FindAllUsers(1)

SpecLeaderboard == InitLeaderboard /\ [][NextLeaderboard]_vars

\* a second GET /users request with the same query, by any requester, after
\* the first one was answered
ReceiveSameQuery(cookie) ==
    /\ boards[1].pc = "done"
    /\ ReceiveBoard(2, cookie, boards[1].name, boards[1].sort)

NextLeaderboardPair ==
    \/ NextLeaderboard
    \/ \E cookie \in 0..(NumBoardUsers + 1) : ReceiveSameQuery(cookie)
    \/ FindCurrentUser(2)
    \/ FindAllUsers(2)

SpecLeaderboardPair == InitLeaderboard /\ [][NextLeaderboardPair]_vars

\* the leaderboard request b was answered with a list
Listed(b) == boards[b].pc = "done" /\ boards[b].status = 200

\* part occurs in text, letters compared without case
ContainsFolded(text, part) ==
    \E k \in 0..(Len(text) - Len(part)) :
        \A m \in 1..Len(part) : Lower(text[k + m]) = Lower(part[m])

\* the scores of the entries from position `from` on never increase
ScoresDescendFrom(result, from) ==
    \A i, j \in from..Len(result) : i < j => result[i].score >= result[j].score

(***************************************************************************)
(* C11: the leaderboard assigns standard competition ranks: the first      *)
(* entry has rank 1 and every later entry has the rank of the entry before *)
(* it when their scores are equal, its position counted from 1 otherwise.  *)
(***************************************************************************)
C11_CompetitionRanks ==
    \A b \in BoardIds :
        Listed(b) =>
            LET result == boards[b].result
            IN  \A i \in DOMAIN result :
                    result[i].rank =
                        IF i = 1 THEN 1
                        ELSE IF result[i].score = result[i - 1].score
                        THEN result[i - 1].rank
                        ELSE i

(***************************************************************************)
(* C12: the returned sequence is sorted by score in the requested          *)
(* direction: scores never increase along it by default or for sort=desc,  *)
(* never decrease for sort=asc.                                            *)
(***************************************************************************)
C12_SortedAsRequested ==
    \A b \in BoardIds :
        Listed(b) =>
            LET result == boards[b].result
            IN  \A i \in 2..Len(result) :
                    IF boards[b].sort = "asc"
                    THEN result[i - 1].score <= result[i].score
                    ELSE result[i - 1].score >= result[i].score

C14_RankIndependentOfOrder ==
    Listed(1) /\ Listed(2) =>
        \A i \in DOMAIN boards[1].result, j \in DOMAIN boards[2].result :
            boards[1].result[i].id = boards[2].result[j].id
                => boards[1].result[i].rank = boards[2].result[j].rank

(***************************************************************************)
(* C15: when a name filter is given, every entry of the returned sequence  *)
(* has a name that contains the filter text, letters compared without      *)
(* case.                                                                   *)
(***************************************************************************)
C15_EveryEntryContainsFilter ==
    \A b \in BoardIds :
        Listed(b) /\ boards[b].name # << >> =>
            \A i \in DOMAIN boards[b].result :
                ContainsFolded(boards[b].result[i].name, boards[b].name)

(***************************************************************************)
(* Question creation: router.post('/') of the questions router. The        *)
(* handler validates the body, looks the tag up by name, inserts the       *)
(* question, increments the tag's question_number and inserts the links to *)
(* the related questions; its awaits interleave with those of other        *)
(* requests.                                                               *)
(***************************************************************************)
\* the userId cookie of a creation: absent, the id of a user, the id of no user
CreatorInputs == {NoCookie, 1, NumUsers + 1}

\* correct_option of the body
CorrectOptionInputs == { Undefined, Num(<<"2">>), Num(<<"5">>) }

\* tag_name of the body: "" (falsy, like an absent field), the names of the
\* tags of the table, and a name no tag has
TagNameInputs == {""} \cup {TagNames[t] : t \in 1..(NumTags + 1)}

\* an id no question has or gets
NoQuestionId == NumQuestions + MaxRequests + 1

\* related_ids of the body; an absent field behaves as the empty array
RelatedIdsInputs == { << >>, <<1>>, <<1, 1>>, <<NoQuestionId>> }

\* [1, 2, 3, 4].includes(correct_option): strict equality, numbers only
CorrectOptionIncluded(v) ==
    /\ v.type = "number"
    /\ Len(v.text) = 1
    /\ IsDigit(v.text[1])
    /\ DigitValue(v.text[1]) \in {1, 2, 3, 4}

CreationInFlight(c) == creations[c].pc \notin {"idle", "done"}

\* what the tables held when the request arrived (history, read by no action)
CreationSnapshot ==
    [question_number |-> [t \in DOMAIN Tags |-> Tags[t].question_number],
     questions |-> DOMAIN Questions]

RespondCreation(c, s, e) ==
    creations' = [creations EXCEPT ![c].pc = "done", ![c].status = s, ![c].error = e]

\* authenticateUser and the synchronous head of the handler; `fields` tells
\* whether name, question, option1..option4 and level are all given
ReceiveCreation(c, cookie, fields, correct_option, tag_name, related_ids) ==
    /\ ~CreationInFlight(c)
    /\ \A r \in Procs : r < c => CreationInFlight(r)
    /\ posted < MaxRequests
    /\ posted' = posted + 1
    /\ LET r == [IdleCreation EXCEPT !.creator_id = cookie,
                                     !.correct_option = correct_option,
                                     !.tag_name = tag_name,
                                     !.related_ids = related_ids,
                                     !.before = CreationSnapshot]
       IN  IF cookie = NoCookie
           THEN creations' = [creations EXCEPT ![c] =
                    [r EXCEPT !.pc = "done", !.status = 401, !.error = "unauthorized"]]
           ELSE IF ~fields \/ Falsy(correct_option) \/ tag_name = ""
           THEN creations' = [creations EXCEPT ![c] =
                    [r EXCEPT !.pc = "done", !.status = 400, !.error = "required"]]
           ELSE IF ~CorrectOptionIncluded(correct_option)
           THEN creations' = [creations EXCEPT ![c] =
                    [r EXCEPT !.pc = "done", !.status = 400, !.error = "option"]]
           ELSE creations' = [creations EXCEPT ![c] = [r EXCEPT !.pc = "findTag"]]
    /\ UNCHANGED <<store, columnsUnique, requests, received, Tags, RelatedQuestions, boards, beside>>

\* the tags named n
TagsNamed(n) == {t \in DOMAIN Tags : Tags[t].name = n}

\* a lookup that takes the first tag of the table when none has the name
FindTag_FirstTag(c) ==
    /\ creations[c].pc = "findTag"
    /\ creations' = [creations EXCEPT ![c].pc = "createQuestion", ![c].tag_id = 1]
    /\ UNCHANGED <<store, columnsUnique, requests, received, Tags, RelatedQuestions,
                   posted, boards, beside>>

\* const tag = await Tag.findOne({ where: { name: tag_name } })
FindTag(c) ==
    /\ creations[c].pc = "findTag"
    /\ IF TagsNamed(creations[c].tag_name) = {}
       THEN RespondCreation(c, 404, "tag not found")
       ELSE creations' = [creations EXCEPT
                ![c].pc = "createQuestion",
                ![c].tag_id = CHOOSE t \in TagsNamed(creations[c].tag_name) :
                                 \A o \in TagsNamed(creations[c].tag_name) : t <= o]
    /\ UNCHANGED <<store, columnsUnique, requests, received, Tags, RelatedQuestions,
                   posted, boards, beside>>

\* the id AUTOINCREMENT gives the next question
NextQuestionId ==
    (CHOOSE q \in DOMAIN Questions : \A o \in DOMAIN Questions : o <= q) + 1

\* const newQuestion = await Question.create({...}); the insert throws when
\* creator_id references no user
CreateQuestion(c) ==
    /\ creations[c].pc = "createQuestion"
    /\ IF creations[c].creator_id \notin DOMAIN Users
       THEN /\ RespondCreation(c, 500, "failed")
            /\ UNCHANGED Questions
       ELSE /\ Questions' =
                  [q \in DOMAIN Questions \cup {NextQuestionId} |->
                      IF q \in DOMAIN Questions THEN Questions[q]
                      ELSE [correct_option |-> DigitValue(creations[c].correct_option.text[1]),
                            answer_count |-> 0, correct_answer_count |-> 0,
                            tag_id |-> creations[c].tag_id]]
            /\ creations' = [creations EXCEPT ![c].pc = "incrementTag",
                                              ![c].question_id = NextQuestionId]
    /\ UNCHANGED <<Users, AnsweredQuestionUsers, columnsUnique, requests, received, Tags,
                   RelatedQuestions, posted, boards, beside>>

\* after the increment: the links are created when related_ids is not empty,
\* the request is answered with 201 otherwise
AfterIncrement(c) ==
    IF creations[c].related_ids = << >>
    THEN RespondCreation(c, 201, "none")
    ELSE creations' = [creations EXCEPT ![c].pc = "related",
                                        ![c].pending = creations[c].related_ids]

\* a handler that leaves the tag as it is
IncrementQuestionNumber_Forgotten(c) ==
    /\ creations[c].pc = "incrementTag"
    /\ AfterIncrement(c)
    /\ UNCHANGED <<store, columnsUnique, requests, received, Tags, RelatedQuestions,
                   posted, boards, beside>>

\* a handler that writes back the number it read when the request arrived,
\* plus one
IncrementQuestionNumber_ReadModifyWrite(c) ==
    /\ creations[c].pc = "incrementTag"
    /\ Tags' = [Tags EXCEPT ![creations[c].tag_id].question_number =
                   creations[c].before.question_number[creations[c].tag_id] + 1]
    /\ AfterIncrement(c)
    /\ UNCHANGED <<store, columnsUnique, requests, received, RelatedQuestions,
                   posted, boards, beside>>

\* await tag.increment('question_number'): UPDATE question_number =
\* question_number + 1 in the store
IncrementQuestionNumber(c) ==
    /\ creations[c].pc = "incrementTag"
    /\ Tags' = [Tags EXCEPT ![creations[c].tag_id].question_number = @ + 1]
    /\ AfterIncrement(c)
    /\ UNCHANGED <<store, columnsUnique, requests, received, RelatedQuestions,
                   posted, boards, beside>>

\* the insert of the link <<question_id, related_id>> is refused: related_id
\* references no question, or the table holds the link already
LinkRefused(question_id, related_id) ==
    \/ related_id \notin DOMAIN Questions
    \/ <<question_id, related_id>> \in RelatedQuestions

\* one RelatedQuestion.create of related_ids.map, in the order they were
\* issued. Promise.all rejects at the first refused insert, and the catch
\* answers 500 while the remaining inserts still run; when all were accepted
\* the request is answered with 201
CreateRelated(c) ==
    /\ creations[c].pc = "related"
    /\ LET related_id == Head(creations[c].pending)
           refused == LinkRefused(creations[c].question_id, related_id)
           status == IF creations[c].status # 0 THEN creations[c].status
                     ELSE IF refused THEN 500
                     ELSE IF Tail(creations[c].pending) = << >> THEN 201
                     ELSE 0
       IN  /\ RelatedQuestions' =
                  IF refused THEN RelatedQuestions
                  ELSE RelatedQuestions \cup {<<creations[c].question_id, related_id>>}
           /\ creations' = [creations EXCEPT
                  ![c].pending = Tail(creations[c].pending),
                  ![c].status = status,
                  ![c].error = IF status = 500 THEN "failed" ELSE "none",
                  ![c].pc = IF Tail(creations[c].pending) = << >> THEN "done" ELSE "related"]
    /\ UNCHANGED <<store, columnsUnique, requests, received, Tags, posted, boards, beside>>

CreationStep(c) ==
    \/ FindTag(c)
    \/ CreateQuestion(c)
    \/ IncrementQuestionNumber(c)
    \/ CreateRelated(c)

ReceiveAnyCreation(c) ==
    \E cookie \in CreatorInputs, fields \in BOOLEAN,
       correct_option \in CorrectOptionInputs, tag_name \in TagNameInputs,
       related_ids \in RelatedIdsInputs :
        ReceiveCreation(c, cookie, fields, correct_option, tag_name, related_ids)

NextCreate ==
    \E c \in Procs : ReceiveAnyCreation(c) \/ CreationStep(c)

\* creations whose store operations interleave
SpecCreate == Init /\ [][NextCreate]_vars

\* no creation is in progress
CreationQuiescent == \A c \in Procs : ~CreationInFlight(c)

\* creations sent one after the other
NextCreateSerial ==
    \/ CreationQuiescent /\ ReceiveAnyCreation(1)
    \/ \E c \in Procs : CreationStep(c)

SpecCreateSerial == Init /\ [][NextCreateSerial]_vars

CreationDone(c) == creations[c].pc = "done"

\* number of questions of the table that carry the tag t
QuestionsTagged(t) == Cardinality({q \in DOMAIN Questions : Questions[q].tag_id = t})

(***************************************************************************)
(* C16: a successful question creation that names an existing tag raises   *)
(* that tag's question_number by exactly 1 over what it was when the       *)
(* request arrived and leaves every other tag's question_number as it was. *)
(***************************************************************************)
C16_CreationIncrementsItsTag ==
    \A c \in Procs :
        CreationDone(c) /\ creations[c].status = 201 =>
            \A t \in DOMAIN Tags :
                Tags[t].question_number =
                    creations[c].before.question_number[t]
                        + IF Tags[t].name = creations[c].tag_name THEN 1 ELSE 0

\* a creation with a link to a related question was answered with 201
C16_Witness ==
    \E c \in Procs :
        /\ CreationDone(c)
        /\ creations[c].status = 201
        /\ creations[c].related_ids # << >>
        /\ creations[c].question_id \in DOMAIN Questions

(***************************************************************************)
(* C17: a question creation that passes validation and names a tag no tag  *)
(* has is answered with not-found, and the lookup comes before the insert: *)
(* no step of such a request creates a Question or changes a               *)
(* question_number.                                                        *)
(***************************************************************************)
C17_UnknownTagNotFound ==
    [][\A c \in Procs :
          /\ creations'[c] # creations[c]
          /\ creations'[c].tag_name # ""
          /\ TagsNamed(creations'[c].tag_name) = {}
          /\ creations'[c].status \notin {400, 401}
          => /\ creations'[c].pc = "done" => creations'[c].status = 404
             /\ creations'[c].question_id = 0
             /\ UNCHANGED <<Questions, Tags, RelatedQuestions>>]_vars

\* a creation was answered with not-found
C17_Witness ==
    \E c \in Procs :
        /\ CreationDone(c)
        /\ creations[c].status = 404
        /\ TagsNamed(creations[c].tag_name) = {}

(***************************************************************************)
(* C18: whenever no question creation is in progress, after any            *)
(* interleaving of creations, successful or failed, every tag's            *)
(* question_number equals the number of Questions whose tag_id is that     *)
(* tag.                                                                    *)
(***************************************************************************)
C18_TagCountsQuestions ==
    CreationQuiescent =>
        \A t \in DOMAIN Tags : Tags[t].question_number = QuestionsTagged(t)

\* two creations for the same tag, both received before either inserted its
\* question, one answered with 201 and one with 500 after its question was
\* inserted
C18_Witness ==
    /\ CreationQuiescent
    /\ \E c, d \in Procs :
          /\ creations[c].status = 201
          /\ creations[d].status = 500
          /\ creations[d].question_id \in DOMAIN Questions
          /\ creations[c].tag_id = creations[d].tag_id
          /\ creations[c].before.questions = creations[d].before.questions

\* the requests in the slots p and r are the only submissions so far, and both
\* were answered with 200
OnlyTwoBothAccepted(p, r) ==
    /\ p # r
    /\ received = 2
    /\ Done(p) /\ requests[p].status = 200
    /\ Done(r) /\ requests[r].status = 200

(***************************************************************************)
(* C19: counter increments lose no update. When the first submissions of   *)
(* two different users to one question both succeed, however their steps   *)
(* interleave, the question's answer_count has grown from 0 to exactly 2   *)
(* and its correct_answer_count to the number of correct ones; when one    *)
(* user's correct first answers to two different questions both succeed,   *)
(* the user's score has grown from 0 to exactly 2.                         *)
(***************************************************************************)
C19_NoLostUpdate ==
    \A p, r \in Procs :
        OnlyTwoBothAccepted(p, r) =>
            /\ (requests[p].question_id = requests[r].question_id
                    /\ requests[p].user_id # requests[r].user_id)
               => /\ Questions[requests[p].question_id].answer_count = 2
                  /\ Questions[requests[p].question_id].correct_answer_count
                         = Bit(requests[p].correct) + Bit(requests[r].correct)
            /\ (requests[p].user_id = requests[r].user_id
                    /\ requests[p].question_id # requests[r].question_id
                    /\ requests[p].correct /\ requests[r].correct)
               => Users[requests[p].user_id].score = 2

\* two users' submissions to one question, each received before the other
\* incremented anything, both answered with 200, one of them correct
C19_Witness ==
    \E p, r \in Procs :
        /\ OnlyTwoBothAccepted(p, r)
        /\ requests[p].question_id = requests[r].question_id
        /\ requests[p].user_id # requests[r].user_id
        /\ requests[p].before.answer_count = 0
        /\ requests[r].before.answer_count = 0
        /\ requests[p].correct

(***************************************************************************)
(* C20: submissions for different (user, question) pairs are independent:  *)
(* when the only two submissions so far are valid first submissions for    *)
(* two different pairs, both succeed and each pair has its one record,     *)
(* whatever order their steps ran in.                                      *)
(***************************************************************************)
C20_DifferentPairsIndependent ==
    \A p, r \in Procs :
        /\ p # r
        /\ received = 2
        /\ Done(p) /\ ValidSubmission(requests[p])
        /\ Done(r) /\ ValidSubmission(requests[r])
        /\ <<requests[p].user_id, requests[p].question_id>>
               # <<requests[r].user_id, requests[r].question_id>>
        => /\ requests[p].status = 200
           /\ requests[r].status = 200
           /\ RecordsOfPair(requests[p].user_id, requests[p].question_id) = 1

(***************************************************************************)
(* Answer submissions and question creations side by side: the steps of    *)
(* one submission interleave with the steps of one creation, and the       *)
(* client sends at most MaxRequests requests of both kinds together.       *)
(***************************************************************************)
NextMixed ==
    \/ /\ received + posted < MaxRequests
       /\ \E c \in CookieInputs, q \in QuestionIdInputs, o \in OptionInputs :
              ReceiveInSequence(c, q, o)
    \/ \E p \in Procs : Step(p)
    \/ /\ received + posted < MaxRequests
       /\ CreationQuiescent
       /\ ReceiveAnyCreation(1)
    \/ \E c \in Procs : CreationStep(c)

SpecMixed == Init /\ [][NextMixed]_vars

(***************************************************************************)
(* C21: a ledger entry is never updated or deleted: every row the ledger   *)
(* holds, with its status, is still there after every step, whatever       *)
(* operation the step belongs to.                                          *)
(***************************************************************************)
C21_LedgerEntriesStay ==
    [][\A r \in Rows :
          CopiesIn(r, AnsweredQuestionUsers') >= CopiesIn(r, AnsweredQuestionUsers)]_vars

\* a pair has its record and a later submission for the pair was turned away
C21_Witness ==
    \E p \in Procs :
        /\ Done(p)
        /\ requests[p].before.answered
        /\ requests[p].status = 400
        /\ RecordsOfPair(requests[p].user_id, requests[p].question_id) = 1

\* the submitted option v is the integer n, sent as a number or as its text
SubmittedIs(v, n) == v.text = <<Digits[n + 1]>>

(***************************************************************************)
(* C22: the record a successful submission leaves for (u, q) has status    *)
(* Correct exactly when the submitted option equals correct_option(q) and  *)
(* Incorrect otherwise, and no record has any other status.                *)
(***************************************************************************)
C22_StatusMatchesOption ==
    /\ \A r \in Rows : r.answered_status \in {"Correct", "Incorrect"}
    /\ \A p \in Procs :
          Done(p) /\ requests[p].status = 200 =>
              LET q == requests[p].question_id
                  expected == IF SubmittedIs(requests[p].option, Questions[q].correct_option)
                              THEN "Correct" ELSE "Incorrect"
              IN  Row(q, requests[p].user_id, expected) \in Rows

(***************************************************************************)
(* C27: the counters only grow: no step lowers a tag's question_number, a  *)
(* question's answer_count or correct_answer_count, or a user's score,     *)
(* under any interleaving of submissions and creations.                    *)
(***************************************************************************)
C27_CountersOnlyGrow ==
    [][/\ \A t \in DOMAIN Tags :
             Tags'[t].question_number >= Tags[t].question_number
       /\ \A q \in DOMAIN Questions :
             /\ Questions'[q].answer_count >= Questions[q].answer_count
             /\ Questions'[q].correct_answer_count >= Questions[q].correct_answer_count
       /\ \A u \in DOMAIN Users : Users'[u].score >= Users[u].score]_vars

\* a question was created and counted by its tag, and a correct answer was
\* counted by its question and its user
C27_Witness ==
    /\ \E c \in Procs :
          /\ CreationDone(c)
          /\ creations[c].status = 201
          /\ Tags[creations[c].tag_id].question_number
                 > creations[c].before.question_number[creations[c].tag_id]
    /\ \E p \in Procs :
          /\ Done(p)
          /\ requests[p].status = 200
          /\ Questions[requests[p].question_id].correct_answer_count > 0
          /\ Users[requests[p].user_id].score > 0

(***************************************************************************)
(* C28: a step of an answer submission by user u for question q changes    *)
(* nothing but q's answer_count and correct_answer_count, u's score and    *)
(* the ledger rows of (u, q): every other question, every other user,      *)
(* every other ledger row, the set of questions, the tags and the links    *)
(* between questions stay as they are.                                     *)
(***************************************************************************)
C28_SubmissionFrame ==
    [][\A p \in Procs :
          StepOf(p) =>
              LET q == requests'[p].question_id
                  u == requests'[p].user_id
              IN  /\ DOMAIN Questions' = DOMAIN Questions
                  /\ \A o \in DOMAIN Questions :
                        /\ o # q => Questions'[o] = Questions[o]
                        /\ Questions'[o].correct_option = Questions[o].correct_option
                        /\ Questions'[o].tag_id = Questions[o].tag_id
                  /\ DOMAIN Users' = DOMAIN Users
                  /\ \A o \in DOMAIN Users :
                        /\ o # u => Users'[o] = Users[o]
                        /\ Users'[o].name = Users[o].name
                  /\ \A r \in Rows \cup BagToSet(AnsweredQuestionUsers') :
                        (r.question_id # q \/ r.user_id # u)
                            => CopiesIn(r, AnsweredQuestionUsers')
                                   = CopiesIn(r, AnsweredQuestionUsers)
                  /\ UNCHANGED <<Tags, RelatedQuestions>>]_vars

\* a correct answer was accepted while the ledger held the record of another
\* pair
C28_Witness ==
    \E p \in Procs :
        /\ Done(p)
        /\ requests[p].status = 200
        /\ requests[p].correct
        /\ \E r \in Rows :
              r.question_id # requests[p].question_id /\ r.user_id # requests[p].user_id

(***************************************************************************)
(* C29: in every reachable state, also in the middle of interleaved        *)
(* submissions, the ledger is never ahead of the counters and the score is *)
(* never ahead of the ledger: each question has at most answer_count       *)
(* records, and each user's score is at most the number of the user's      *)
(* Correct records.                                                        *)
(***************************************************************************)
C29_LedgerBehindCounters ==
    /\ \A q \in DOMAIN Questions :
          RecordsOfQuestion(q) <= Questions[q].answer_count
    /\ \A u \in DOMAIN Users :
          Users[u].score <= CorrectRecordsOfUser(u)

\* two submissions in flight: one has inserted its Correct record and not yet
\* raised the score, the other has raised answer_count and not yet inserted
C29_Witness ==
    \E p, r \in Procs :
        /\ requests[p].pc = "incrementScore"
        /\ Users[requests[p].user_id].score < CorrectRecordsOfUser(requests[p].user_id)
        /\ requests[r].pc \in {"findOne", "create"}
        /\ RecordsOfQuestion(requests[r].question_id)
               < Questions[requests[r].question_id].answer_count

(***************************************************************************)
(* C30: a question creation that ends with an error response leaves no     *)
(* partial state: the table holds the questions it held when the request   *)
(* arrived, and every tag's question_number is what it was then.           *)
(***************************************************************************)
C30_ErrorLeavesNoPartialState ==
    \A c \in Procs :
        CreationDone(c) /\ creations[c].status >= 400 =>
            /\ DOMAIN Questions = creations[c].before.questions
            /\ \A t \in DOMAIN Tags :
                  Tags[t].question_number = creations[c].before.question_number[t]

(***************************************************************************)
(* The interleaved submissions when every await of a request in flight     *)
(* completes: the store answers each query, so no handler waits forever.   *)
(***************************************************************************)
SpecFair == Spec /\ \A p \in Procs : WF_vars(Step(p))

\* the one response of a finished request: the success result or an error
\* with its description
ResponseWellFormed(r) ==
    /\ r.responses = 1
    /\ \/ r.status = 200 /\ r.error = "none"
       \/ r.status \in {400, 401, 404, 500} /\ r.error # "none" /\ ~r.correct

(***************************************************************************)
(* C26: every answer submission eventually ends, and it ends with exactly  *)
(* one response, the success result {correct} or a structured error: a    *)
(* request in flight has sent none yet, a finished one has sent one,       *)
(* whatever the other requests do.                                         *)
(***************************************************************************)
C26_ExactlyOneResponse ==
    /\ \A p \in Procs : [](InFlight(p) => <>Done(p))
    /\ [](\A p \in Procs :
             /\ InFlight(p) => requests[p].responses = 0
             /\ Done(p) => ResponseWellFormed(requests[p]))

\* two submissions raced: one ended with the success result and one with an
\* error
C26_Witness ==
    \E p, r \in Procs :
        /\ Done(p) /\ requests[p].status = 200
        /\ Done(r) /\ requests[r].status >= 400
        /\ requests[r].before.answer_count = requests[p].before.answer_count
        /\ requests[r].question_id = requests[p].question_id

(***************************************************************************)
(* Registration: router.post('/') of the users router. The handler looks   *)
(* for a user with the name or the email, hashes the password and inserts  *)
(* the user; the Users table declares name UNIQUE and email UNIQUE.        *)
(***************************************************************************)
\* what the handlers of tags, registration and login never touch
questionSide ==
    <<Questions, AnsweredQuestionUsers, columnsUnique, requests, received,
      Tags, RelatedQuestions, creations, posted, boards>>

\* name, email and password of the body: absent, the one of a user of the
\* table, and two new ones
RegistrationNames == { << >>, UserNames[1], UserNames[NumUsers + 1], UserNames[NumUsers + 2] }
RegistrationEmails == { "", UserEmails[1], UserEmails[NumUsers + 1], UserEmails[NumUsers + 2] }
RegistrationPasswords == { "", "pw-new" }

RegistrationInFlight(p) == registrations[p].pc \notin {"idle", "done"}

RespondRegistration(p, s, e) ==
    registrations' = [registrations EXCEPT ![p].pc = "done", ![p].status = s,
                                           ![p].error = e]

\* the synchronous head of the handler: the required fields
ReceiveRegistration(p, name, email, password) ==
    /\ ~RegistrationInFlight(p)
    /\ \A r \in Procs : r < p => RegistrationInFlight(r)
    /\ arrived < MaxRequests
    /\ arrived' = arrived + 1
    /\ LET r == [IdleRegistration EXCEPT !.name = name, !.email = email,
                                         !.password = password]
       IN  IF name = << >> \/ email = "" \/ password = ""
           THEN registrations' = [registrations EXCEPT ![p] =
                    [r EXCEPT !.pc = "done", !.status = 400, !.error = "required"]]
           ELSE registrations' = [registrations EXCEPT ![p] = [r EXCEPT !.pc = "findOne"]]
    /\ UNCHANGED <<Users, questionSide, tagRequests, tagNameUnique, logins, issued>>

\* the users that hold the name or the email
UsersHolding(name, email) ==
    {u \in DOMAIN Users : Users[u].name = name \/ Users[u].email = email}

\* const existingUser = await User.findOne({ where: { [Op.or]: [...] } })
FindExistingUser(p) ==
    /\ registrations[p].pc = "findOne"
    /\ IF UsersHolding(registrations[p].name, registrations[p].email) # {}
       THEN RespondRegistration(p, 400, "exists")
       ELSE registrations' = [registrations EXCEPT ![p].pc = "hash"]
    /\ UNCHANGED <<Users, questionSide, tagRequests, tagNameUnique, logins, issued, arrived>>

\* const hashedPassword = await bcrypt.hash(password, saltRounds)
HashPassword(p) ==
    /\ registrations[p].pc = "hash"
    /\ registrations' = [registrations EXCEPT
           ![p].pc = "create", ![p].hashedPassword = Hash(registrations[p].password)]
    /\ UNCHANGED <<Users, questionSide, tagRequests, tagNameUnique, logins, issued, arrived>>

\* the id AUTOINCREMENT gives the next user
NextUserId == (CHOOSE u \in DOMAIN Users : \A o \in DOMAIN Users : o <= u) + 1

\* const newUser = await User.create({...}), then the 201 response; the
\* insert throws into the catch when name UNIQUE or email UNIQUE refuses it
CreateUser(p) ==
    /\ registrations[p].pc = "create"
    /\ IF UsersHolding(registrations[p].name, registrations[p].email) # {}
       THEN /\ RespondRegistration(p, 500, "failed")
            /\ UNCHANGED Users
       ELSE /\ Users' = [u \in DOMAIN Users \cup {NextUserId} |->
                            IF u \in DOMAIN Users THEN Users[u]
                            ELSE [name |-> registrations[p].name,
                                  email |-> registrations[p].email,
                                  password |-> registrations[p].hashedPassword,
                                  score |-> 0]]
            /\ registrations' = [registrations EXCEPT ![p].pc = "done", ![p].status = 201,
                                                      ![p].id = NextUserId]
    /\ UNCHANGED <<questionSide, tagRequests, tagNameUnique, logins, issued, arrived>>

RegistrationStep(p) ==
    \/ FindExistingUser(p)
    \/ HashPassword(p)
    \/ CreateUser(p)

NextRegister ==
    \E p \in Procs :
        \/ \E name \in RegistrationNames, email \in RegistrationEmails,
              password \in RegistrationPasswords :
               ReceiveRegistration(p, name, email, password)
        \/ RegistrationStep(p)

\* registrations whose store operations interleave
SpecRegister == Init /\ [][NextRegister]_vars

(***************************************************************************)
(* C23: user names and emails are unique: no two Users share a name or an  *)
(* email, and a registration whose name or email is held by a user it did  *)
(* not create has been rejected with a client error and created no User.   *)
(***************************************************************************)
C23_UniqueNamesAndEmails ==
    /\ \A u, v \in DOMAIN Users :
          u # v => Users[u].name # Users[v].name /\ Users[u].email # Users[v].email
    /\ \A p \in Procs :
          /\ registrations[p].pc = "done"
          /\ registrations[p].name # << >>
          /\ registrations[p].email # ""
          /\ registrations[p].password # ""
          /\ \E u \in UsersHolding(registrations[p].name, registrations[p].email) :
                u # registrations[p].id
          => /\ registrations[p].status \in 400..499
             /\ registrations[p].id = 0

(***************************************************************************)
(* Tag creation: router.post('/') of the tags router. The handler looks    *)
(* for a tag with the name and inserts the tag; the Tag model declares     *)
(* name with or without unique: true.                                      *)
(***************************************************************************)
\* name of the body: absent, a number, the empty string, the name of a tag
\* of the table, and two new names
TagBodyNames ==
    { [type |-> "undefined", text |-> ""], [type |-> "number", text |-> "7"] }
        \cup { [type |-> "string", text |-> n] :
                 n \in {"", TagNames[1], TagNames[NumTags + 1], TagNames[NumTags + 2]} }

TagRequestInFlight(p) == tagRequests[p].pc \notin {"idle", "done"}

RespondTagRequest(p, s, e) ==
    tagRequests' = [tagRequests EXCEPT ![p].pc = "done", ![p].status = s, ![p].error = e]

\* the synchronous head of the handler: !name || typeof name !== 'string'
ReceiveTagRequest(p, name) ==
    /\ ~TagRequestInFlight(p)
    /\ \A r \in Procs : r < p => TagRequestInFlight(r)
    /\ arrived < MaxRequests
    /\ arrived' = arrived + 1
    /\ LET r == [IdleTagRequest EXCEPT !.name = name]
       IN  IF name.type # "string" \/ name.text = ""
           THEN tagRequests' = [tagRequests EXCEPT ![p] =
                    [r EXCEPT !.pc = "done", !.status = 400, !.error = "required"]]
           ELSE tagRequests' = [tagRequests EXCEPT ![p] = [r EXCEPT !.pc = "findOne"]]
    /\ UNCHANGED <<store, columnsUnique, requests, received, Tags, RelatedQuestions,
                   creations, posted, boards, tagNameUnique, registrations, logins, issued>>

\* const existingTag = await Tag.findOne({ where: { name } })
FindExistingTag(p) ==
    /\ tagRequests[p].pc = "findOne"
    /\ IF TagsNamed(tagRequests[p].name.text) # {}
       THEN RespondTagRequest(p, 400, "exists")
       ELSE tagRequests' = [tagRequests EXCEPT ![p].pc = "create"]
    /\ UNCHANGED <<store, columnsUnique, requests, received, Tags, RelatedQuestions,
                   creations, posted, boards, tagNameUnique, registrations, logins, issued,
                   arrived>>

\* the id AUTOINCREMENT gives the next tag
NextTagId == (CHOOSE t \in DOMAIN Tags : \A o \in DOMAIN Tags : o <= t) + 1

\* const tag = await Tag.create({ name }), then the 201 response; where name
\* is UNIQUE a refused insert throws into the catch
CreateTag(p) ==
    /\ tagRequests[p].pc = "create"
    /\ IF tagNameUnique /\ TagsNamed(tagRequests[p].name.text) # {}
       THEN /\ RespondTagRequest(p, 500, "failed")
            /\ UNCHANGED Tags
       ELSE /\ Tags' = [t \in DOMAIN Tags \cup {NextTagId} |->
                           IF t \in DOMAIN Tags THEN Tags[t]
                           ELSE [name |-> tagRequests[p].name.text, question_number |-> 0]]
            /\ tagRequests' = [tagRequests EXCEPT ![p].pc = "done", ![p].status = 201,
                                                  ![p].tag_id = NextTagId]
    /\ UNCHANGED <<store, columnsUnique, requests, received, RelatedQuestions,
                   creations, posted, boards, tagNameUnique, registrations, logins, issued,
                   arrived>>

NextTags ==
    \E p \in Procs :
        \/ \E name \in TagBodyNames : ReceiveTagRequest(p, name)
        \/ FindExistingTag(p)
        \/ CreateTag(p)

\* the tables with either declaration of Tags.name
InitTags ==
    /\ InitTables
    /\ tagNameUnique \in BOOLEAN

\* tag creations whose store operations interleave
SpecTags == InitTags /\ [][NextTags]_vars

(***************************************************************************)
(* C24: tag names are unique: no two Tags share a name, and a tag creation *)
(* whose name is held by a tag it did not create has been rejected with a  *)
(* client error and created no Tag.                                        *)
(***************************************************************************)
C24_UniqueTagNames ==
    /\ \A t, o \in DOMAIN Tags : t # o => Tags[t].name # Tags[o].name
    /\ \A p \in Procs :
          /\ tagRequests[p].pc = "done"
          /\ tagRequests[p].name.type = "string"
          /\ tagRequests[p].name.text # ""
          /\ \E t \in TagsNamed(tagRequests[p].name.text) : t # tagRequests[p].tag_id
          => /\ tagRequests[p].status \in 400..499
             /\ tagRequests[p].tag_id = 0

(***************************************************************************)
(* Login: router.post('/login') of the users router. The handler finds the *)
(* user by email, compares the password with the stored hash and sets the  *)
(* cookie userId to the user's id. authenticateUser takes the user id of a *)
(* later request from the cookie userId the client sends with it.          *)
(***************************************************************************)
\* email and password of the body: absent, those of user 1, and others
LoginEmails == { "", UserEmails[1], UserEmails[NumUsers + 1] }
LoginPasswords == { "", UserPasswords[1], "pw-guess" }

LoginInFlight(p) == logins[p].pc \notin {"idle", "done"}

RespondLogin(p, s, e) ==
    logins' = [logins EXCEPT ![p].pc = "done", ![p].status = s, ![p].error = e]

\* the synchronous head of the handler: the required fields
ReceiveLogin(p, email, password) ==
    /\ ~LoginInFlight(p)
    /\ \A r \in Procs : r < p => LoginInFlight(r)
    /\ LET r == [IdleLogin EXCEPT !.email = email, !.password = password]
       IN  IF email = "" \/ password = ""
           THEN logins' = [logins EXCEPT ![p] =
                    [r EXCEPT !.pc = "done", !.status = 400, !.error = "required"]]
           ELSE logins' = [logins EXCEPT ![p] = [r EXCEPT !.pc = "findOne"]]
    /\ arrived' = arrived + 1
    /\ UNCHANGED <<Users, questionSide, tagRequests, tagNameUnique, registrations, issued>>

\* const user = await User.findOne({ where: { email } })
FindUserByEmail(p) ==
    /\ logins[p].pc = "findOne"
    /\ LET found == {u \in DOMAIN Users : Users[u].email = logins[p].email}
       IN  IF found = {}
           THEN RespondLogin(p, 404, "userNotFound")
           ELSE logins' = [logins EXCEPT
                    ![p].pc = "compare",
                    ![p].user = CHOOSE u \in found : \A o \in found : u <= o]
    /\ UNCHANGED <<Users, questionSide, tagRequests, tagNameUnique, registrations, issued,
                   arrived>>

\* await bcrypt.compare(password, user.password), then res.cookie('userId',
\* user.id) and the 200 response
ComparePassword(p) ==
    /\ logins[p].pc = "compare"
    /\ IF Compare(logins[p].password, Users[logins[p].user].password)
       THEN /\ issued' = issued \cup {logins[p].user}
            /\ RespondLogin(p, 200, "none")
       ELSE /\ RespondLogin(p, 401, "invalidPassword")
            /\ UNCHANGED issued
    /\ UNCHANGED <<Users, questionSide, tagRequests, tagNameUnique, registrations, arrived>>

\* logins and answer submissions of clients that send their requests one
\* after the other; the cookie of a submission is what the client sends
NextAuth ==
    \/ /\ received + arrived < MaxRequests
       /\ \A p \in Procs : ~LoginInFlight(p)
       /\ \E c \in CookieInputs, q \in QuestionIdInputs, o \in OptionInputs :
              ReceiveInSequence(c, q, o)
    \/ \E p \in Procs : Step(p)
    \/ /\ received + arrived < MaxRequests
       /\ Quiescent
       /\ \E email \in LoginEmails, password \in LoginPasswords :
              ReceiveLogin(1, email, password)
    \/ \E p \in Procs : FindUserByEmail(p) \/ ComparePassword(p)

SpecAuth == Init /\ [][NextAuth]_vars

(***************************************************************************)
(* C25: every answer submission that changes the store is scored for a     *)
(* verified user id: the user_id of the request is the id of a user for    *)
(* whom a login has succeeded; and a request without the cookie is         *)
(* rejected as unauthorized and changes nothing.                           *)
(***************************************************************************)
C25_ScoredForVerifiedUser ==
    [][\A p \in Procs :
          StepOf(p) =>
              /\ store' # store => requests[p].user_id \in issued
              /\ requests'[p].user_id = NoCookie
                    => requests'[p].status = 401 /\ store' = store]_vars

====
